---- MODULE Spec2Model ----
(***************************************************************************)
(* A model of github.com/milosgajdos/gopfield: the Hopfield network of     *)
(* package hopfield, in the variants the repository holds:                 *)
(*                                                                         *)
(*   "Net"     src/hopfield/network.go:1-253    NewNet(size, method),      *)
(*             Store(patterns), Restore(p, maxiters, eqiters)              *)
(*   "NetM"    src/hopfield/network.go:255-486  NewNet(size),              *)
(*             Store(ps, method), Restore(p, maxiters, eqiters)            *)
(*   "Network" src/unnamed/part_005:179-427     NewNetwork(size, method),  *)
(*             Store(patterns), Restore(p, mode, iters)                    *)
(*                                                                         *)
(* float64 values are modelled by exact rationals <<num, den>>, den > 0,   *)
(* in lowest terms: the model follows the arithmetic of the code and not   *)
(* its rounding.  Slices and vectors keep the 0-based indices of Go.       *)
(***************************************************************************)
EXTENDS Integers, Sequences, FiniteSets, TLC

\* Bounds of the model.
MaxSize == 3
MaxBatch == 2
MaxStores == 2
\* Store calls before the Restore calls of the recall specifications.
MaxTrain == 1
\* Restore calls of one behaviour.
MaxRestores == 1
\* The largest small sweep budget handed to Restore, and a budget no run uses up.
MaxIters == 2
ManyIters == 100
\* The largest network whose energy is computed for weights and bias of any
\* value, and the largest absolute value of those.
MaxEnergySize == 2
MaxEntry == 1
\* The longest slice handed to Encode and the longest pattern handed to AddNoise.
MaxPatLen == 4
\* The largest network whose Capacity is asked for.
MaxCapSize == 12

VARIABLES
    variant,    \* which variant of package hopfield the behaviour runs
    size,       \* len(n.neurons) / dimension of n.weights; 0: no network yet
    method,     \* the training method the network was constructed with
    weights,    \* n.weights: mat64.SymDense
    bias,       \* n.bias: mat64.Vector
    neurons,    \* n.neurons[i].state
    memorised,  \* n.memorised (variant "Network")
    pc,         \* "idle" | "restore" | "returned"
    call,       \* the arguments of the call in progress or just returned
    ret,        \* what that call returned
    pat,        \* the caller's pattern slice handed to Restore (mutated in place)
    eqiter,     \* Restore: consecutive unit updates without a state change
    maxiter,    \* Restore: completed sweeps
    visited,    \* Restore: the units of seq already visited in this sweep
    nstores,    \* Store calls made so far
    nrestores,  \* Restore calls made so far
    draws,      \* AddNoise: the values rand.Intn returned to the call
    changed     \* n.neurons[i].changed (variant "NetFlag")

netVars == <<size, method, weights, bias, neurons, memorised>>
loopVars == <<pat, eqiter, maxiter, visited>>
vars == <<variant, size, method, weights, bias, neurons, memorised, pc, call, ret,
          pat, eqiter, maxiter, visited, nstores, nrestores, draws, changed>>
countVars == <<nstores, nrestores>>

----------------------------------------------------------------------------
\* float64 arithmetic, exact.

RECURSIVE GCD(_, _)
GCD(a, b) == IF b = 0 THEN a ELSE GCD(b, a % b)

Abs(x) == IF x < 0 THEN -x ELSE x

Rat(n, d) ==
    LET g == GCD(Abs(n), d) IN
    IF n = 0 THEN <<0, 1>> ELSE <<n \div g, d \div g>>

Zero == <<0, 1>>
FromInt(n) == <<n, 1>>
RatAdd(a, b) == Rat(a[1] * b[2] + b[1] * a[2], a[2] * b[2])
RatNeg(a) == <<-a[1], a[2]>>
RatSub(a, b) == RatAdd(a, RatNeg(b))
RatMul(a, b) == Rat(a[1] * b[1], a[2] * b[2])
\* a / float64(k), k > 0
RatDivInt(a, k) == Rat(a[1], a[2] * k)
RatGeq(a, b) == a[1] * b[2] >= b[1] * a[2]
RatLt(a, b) == a[1] * b[2] < b[1] * a[2]

----------------------------------------------------------------------------
\* Patterns and batches of patterns.

\* A pattern is a slice of float64 (or a pointer to a vector of them): nil, or
\* its values at 0 .. len-1.
NilPattern == [nil |-> TRUE, v |-> <<>>]
Pat(v) == [nil |-> FALSE, v |-> v]
PLen(p) == Cardinality(DOMAIN p.v)
Bipolar(n) == {Pat(v) : v \in [0 .. n - 1 -> {-1, 1}]}

\* A []Pattern: nil, or a sequence of patterns.
NilBatch == [nil |-> TRUE, ps |-> <<>>]
Batch(s) == [nil |-> FALSE, ps |-> s]

\* The patterns and batches the callers of the model hand in.
InputPatterns == {NilPattern} \cup UNION {Bipolar(n) : n \in 0 .. MaxSize}
InputBatches ==
    {NilBatch}
        \cup {Batch(s) : s \in UNION {[1 .. k -> InputPatterns] : k \in 0 .. MaxBatch}}
Methods == {"hebbian", "storkey", "Hebbian", "STORKEY", "foobar"}
IterInputs == (-1 .. MaxIters) \cup {ManyIters}
EqInputs == -1 .. 2 * MaxSize - 1

----------------------------------------------------------------------------
\* mat64.SymDense and mat64.Vector

NewSymDense(n) == [i \in 0 .. n - 1 |-> [j \in 0 .. n - 1 |-> Zero]]
NewVector(n) == [i \in 0 .. n - 1 |-> Zero]
At(w, i, j) == w[i][j]
SetSymBroken(w, i, j, v) == [w EXCEPT ![i][j] = v]
SetSym(w, i, j, v) == [w EXCEPT ![i][j] = v, ![j][i] = v]
AddSymReplace(a, b) == b
AddSym(a, b) ==
    [i \in DOMAIN a |-> [j \in DOMAIN a[i] |-> RatAdd(a[i][j], b[i][j])]]

----------------------------------------------------------------------------
\* Variant "Net": the learning rules.

\* The three nested loops of hebbian, entered at (i, j, k); k indexes p from 1.
RECURSIVE hebbianLoop(_, _, _, _, _, _)
hebbianLoop(w, p, dim, i, j, k) ==
    IF i >= dim THEN w
    ELSE IF j >= dim THEN hebbianLoop(w, p, dim, i + 1, i + 2, 1)
    ELSE IF k > Len(p) THEN hebbianLoop(w, p, dim, i, j + 1, 1)
    ELSE hebbianLoop(
             SetSym(w, i, j,
                    RatAdd(At(w, i, j),
                           RatDivInt(FromInt(p[k].v[i] * p[k].v[j]), dim))),
             p, dim, i, j, k + 1)

\* A hebbian whose inner loop starts the first row on the diagonal.
hebbianFromDiagonal(p) ==
    LET dim == PLen(p[1]) IN hebbianLoop(NewSymDense(dim), p, dim, 0, 0, 1)

hebbian(p) ==
    LET dim == PLen(p[1]) IN hebbianLoop(NewSymDense(dim), p, dim, 0, 1, 1)

RECURSIVE localFieldLoop(_, _, _, _, _)
localFieldLoop(w, p, i, j, k) ==
    IF k >= PLen(p) THEN Zero
    ELSE IF k # i /\ k # j
         THEN RatAdd(RatMul(At(w, i, k), FromInt(p.v[k])),
                     localFieldLoop(w, p, i, j, k + 1))
         ELSE localFieldLoop(w, p, i, j, k + 1)

localField(w, p, i, j) == localFieldLoop(w, p, i, j, 0)

RECURSIVE storkeyLoop(_, _, _, _, _, _)
storkeyLoop(w, p, dim, i, j, k) ==
    IF i >= dim THEN w
    ELSE IF j >= dim THEN storkeyLoop(w, p, dim, i + 1, i + 2, 1)
    ELSE IF k > Len(p) THEN storkeyLoop(w, p, dim, i, j + 1, 1)
    ELSE LET s1 == FromInt(p[k].v[i] * p[k].v[j])
             s2 == RatSub(s1, RatMul(FromInt(p[k].v[i]), localField(w, p[k], j, i)))
             s3 == RatSub(s2, RatMul(FromInt(p[k].v[j]), localField(w, p[k], i, j)))
             sum == RatDivInt(s3, dim)
         IN  storkeyLoop(SetSym(w, i, j, RatAdd(At(w, i, j), sum)),
                         p, dim, i, j, k + 1)

storkey(p) ==
    LET dim == PLen(p[1]) IN storkeyLoop(NewSymDense(dim), p, dim, 0, 1, 1)

\* var store = map[string]StoreFunc{...}: the keys, and the lookup
storeKeys == {"hebbian", "storkey"}
storeFunc(m, p) == IF m = "hebbian" THEN hebbian(p) ELSE storkey(p)

----------------------------------------------------------------------------
\* Calls and returns.

NoCall ==
    [op |-> "none", size |-> 0, method |-> "", patterns |-> NilBatch,
     p |-> NilPattern, maxiters |-> 0, eqiters |-> 0, mode |-> "", iters |-> 0,
     pcnt |-> 0, conv |-> 0, i |-> 0, val |-> 0]
NoRet == [err |-> "none", p |-> NilPattern, e |-> Zero, n |-> 0]
Err(e) == [err |-> e, p |-> NilPattern, e |-> Zero, n |-> 0]

\* No network constructed yet, no call made yet.
Fresh ==
    /\ size = 0
    /\ method = ""
    /\ weights = NewSymDense(0)
    /\ bias = NewVector(0)
    /\ neurons = NewVector(0)
    /\ memorised = 0
    /\ pc = "idle"
    /\ call = NoCall
    /\ ret = NoRet
    /\ pat = NilPattern
    /\ eqiter = 0
    /\ maxiter = 0
    /\ visited = {}
    /\ nstores = 0
    /\ nrestores = 0
    /\ draws = <<>>
    /\ changed = <<>>

InitNet == variant = "Net" /\ Fresh
InitNetM == variant = "NetM" /\ Fresh
InitNetwork == variant = "Network" /\ Fresh
Init == variant \in {"Net", "NetM", "Network"} /\ Fresh

\* The caller is done with what the call returned.
Return ==
    /\ pc = "returned"
    /\ pc' = "idle"
    /\ call' = NoCall
    /\ ret' = NoRet
    /\ pat' = NilPattern
    /\ eqiter' = 0
    /\ maxiter' = 0
    /\ visited' = {}
    /\ draws' = <<>>
    /\ UNCHANGED <<variant, netVars, countVars, changed>>

----------------------------------------------------------------------------
\* Variant "Net": NewNet(size, method)

\* The checks of NewNet: the error returned, "none" when there is none.
NewNetErrNegative(sz, m) ==
    IF sz < 0 THEN "invalid network size"
    ELSE IF m \notin storeKeys THEN "unsupported training method"
    ELSE "none"
NewNetErr(sz, m) ==
    IF sz <= 0 THEN "invalid network size"
    ELSE IF m \notin storeKeys THEN "unsupported training method"
    ELSE "none"

NewNet(sz, m) ==
    /\ variant = "Net"
    /\ pc = "idle"
    /\ size = 0
    /\ pc' = "returned"
    /\ call' = [NoCall EXCEPT !.op = "NewNet", !.size = sz, !.method = m]
    /\ IF NewNetErr(sz, m) # "none"
       THEN /\ ret' = Err(NewNetErr(sz, m))
            /\ UNCHANGED netVars
       ELSE /\ ret' = NoRet
            /\ size' = sz
            /\ method' = m
            /\ weights' = NewSymDense(sz)
            /\ bias' = NewVector(sz)
            /\ neurons' = [i \in 0 .. sz - 1 |-> 0]
            /\ UNCHANGED memorised
    /\ UNCHANGED <<variant, loopVars, countVars>>

\* A Store that checks each pattern's length as it comes to it, after it has
\* added the weights of the patterns before it.
Net_StoreResultLate(w, m, n, patterns) ==
    LET ps == patterns.ps
        bad == {k \in 1 .. Len(ps) : PLen(ps[k]) # n}
        first == CHOOSE k \in bad : \A x \in bad : k <= x
    IN  IF patterns.nil \/ Len(ps) = 0
        THEN [err |-> "invalid patterns supplied", w |-> w]
        ELSE IF bad # {}
        THEN [err |-> "pattern dimension mismatch",
              w |-> IF first = 1 THEN w
                    ELSE AddSym(w, storeFunc(m, SubSeq(ps, 1, first - 1)))]
        ELSE [err |-> "none", w |-> AddSym(w, storeFunc(m, ps))]

\* The body of Store(patterns) on the weights w of a network of n neurons and
\* training method m: the error returned and the weights it leaves.
Net_StoreResult(w, m, n, patterns) ==
    IF patterns.nil \/ Len(patterns.ps) = 0
    THEN [err |-> "invalid patterns supplied", w |-> w]
    ELSE IF \E k \in 1 .. Len(patterns.ps) : PLen(patterns.ps[k]) # n
    THEN [err |-> "pattern dimension mismatch", w |-> w]
    ELSE [err |-> "none", w |-> AddSym(w, storeFunc(m, patterns.ps))]

\* Variant "Net": Store(patterns)
Net_Store(patterns) ==
    /\ variant = "Net"
    /\ pc = "idle"
    /\ size > 0
    /\ nstores < MaxStores
    /\ nstores' = nstores + 1
    /\ pc' = "returned"
    /\ call' = [NoCall EXCEPT !.op = "Store", !.patterns = patterns]
    /\ LET r == Net_StoreResult(weights, method, size, patterns)
       IN  /\ ret' = Err(r.err)
           /\ weights' = r.w
    /\ UNCHANGED <<variant, size, method, bias, neurons, memorised, loopVars, nrestores>>

\* A ChangeState that never reports a change.
ChangeStateNever(s, state) == IF state * s < 0 THEN <<FALSE, -s>> ELSE <<FALSE, s>>

\* A ChangeState that reports a change whatever the state it is given.
ChangeStateAlways(s, state) == IF state * s < 0 THEN <<TRUE, -s>> ELSE <<TRUE, s>>

\* Neuron.ChangeState(state), on the neuron's state s: <<changed, new state>>
ChangeState(s, state) == IF state * s < 0 THEN <<TRUE, -s>> ELSE <<FALSE, s>>

\* sum += n.weights.At(i, j) * p[j], for j = from .. size-1
RECURSIVE inputSum(_, _, _, _)
inputSum(w, p, i, j) ==
    IF j >= PLen(p) THEN Zero
    ELSE RatAdd(RatMul(At(w, i, j), FromInt(p.v[j])), inputSum(w, p, i, j + 1))

\* The sum taken from j := 1 on.
unitStateInverted(w, b, p, i) == IF RatGeq(inputSum(w, p, i, 0), b[i]) THEN -1 ELSE 1

unitStateSkipFirst(w, b, p, i) == IF RatGeq(inputSum(w, p, i, 1), b[i]) THEN 1 ELSE -1

\* case sum >= n.bias.At(i, 0): 1.0; default: -1.0
unitState(w, b, p, i) == IF RatGeq(inputSum(w, p, i, 0), b[i]) THEN 1 ELSE -1

\* The checks of Restore on a network of n neurons: the error returned, "none"
\* when there is none.
Net_RestoreErrItersFirst(p, maxiters, eqiters, n) ==
    IF maxiters < 0 THEN "invalid number of max iterations"
    ELSE IF eqiters <= 0 THEN "invalid number of equilibrium iterations"
    ELSE IF p.nil THEN "invalid pattern supplied"
    ELSE IF PLen(p) # n THEN "dimension mismatch"
    ELSE "none"
Net_RestoreErr(p, maxiters, eqiters, n) ==
    IF p.nil THEN "invalid pattern supplied"
    ELSE IF PLen(p) # n THEN "dimension mismatch"
    ELSE IF maxiters <= 0 THEN "invalid number of max iterations"
    ELSE IF eqiters <= 0 THEN "invalid number of equilibrium iterations"
    ELSE "none"

\* Variant "Net": Restore(p, maxiters, eqiters), up to the first sweep
Net_Restore(p, maxiters, eqiters) ==
    /\ variant = "Net"
    /\ pc = "idle"
    /\ size > 0
    /\ nrestores < MaxRestores
    /\ nrestores' = nrestores + 1
    /\ call' = [NoCall EXCEPT !.op = "Restore", !.p = p, !.maxiters = maxiters,
                              !.eqiters = eqiters]
    /\ pat' = p
    /\ eqiter' = 0
    /\ maxiter' = 0
    /\ visited' = {}
    /\ IF Net_RestoreErr(p, maxiters, eqiters, size) # "none"
       THEN /\ ret' = Err(Net_RestoreErr(p, maxiters, eqiters, size))
            /\ pc' = "returned"
            /\ UNCHANGED neurons
       ELSE /\ ret' = NoRet
            /\ pc' = "restore"
            /\ neurons' = [i \in 0 .. size - 1 |-> p.v[i]]
    /\ UNCHANGED <<variant, size, method, weights, bias, memorised, nstores>>

\* A loop that runs one sweep more than it was asked.
loopCondOneMore(done, maxiters) == done <= maxiters

\* for maxiter < maxiters
loopCond(done, maxiters) == done < maxiters

\* Variant "Net": one pass of the inner loop of Restore, for unit i, the next of
\* seq := rand.Perm(len(n.neurons)): any unit this sweep has not visited yet.
Net_RestoreUnit(i) ==
    /\ variant = "Net"
    /\ pc = "restore"
    /\ i \in (0 .. size - 1) \ visited
    /\ LET state == unitState(weights, bias, pat, i)
           p1 == [pat EXCEPT !.v[i] = state]
           chg == ChangeState(neurons[i], state)
           eq1 == IF chg[1] THEN 0 ELSE eqiter + 1
           swept == visited \cup {i} = 0 .. size - 1
           max1 == IF swept THEN maxiter + 1 ELSE maxiter
       IN  /\ pat' = p1
           /\ neurons' = [neurons EXCEPT ![i] = chg[2]]
           /\ eqiter' = eq1
           /\ IF eq1 = call.eqiters
              THEN /\ pc' = "returned"
                   /\ ret' = [err |-> "none", p |-> p1, e |-> Zero, n |-> 0]
                   /\ UNCHANGED <<maxiter, visited>>
              ELSE /\ maxiter' = max1
                   /\ visited' = IF swept THEN {} ELSE visited \cup {i}
                   /\ IF loopCond(max1, call.maxiters)
                      THEN /\ pc' = "restore"
                           /\ UNCHANGED ret
                      ELSE /\ pc' = "returned"
                           /\ ret' = [err |-> "none", p |-> p1, e |-> Zero, n |-> 0]
    /\ UNCHANGED <<variant, size, method, weights, bias, memorised, call, countVars>>

\* The training phase of the recall specifications: Store, before any Restore.
Net_Train(patterns) ==
    /\ nstores < MaxTrain
    /\ nrestores = 0
    /\ Net_Store(patterns)

----------------------------------------------------------------------------
\* Variant "NetM": NewNet(size) and Store(ps, method)

NetM_NewNet(sz) ==
    /\ variant = "NetM"
    /\ pc = "idle"
    /\ size = 0
    /\ pc' = "returned"
    /\ call' = [NoCall EXCEPT !.op = "NewNet", !.size = sz]
    /\ IF sz <= 0
       THEN /\ ret' = Err("invalid network size")
            /\ UNCHANGED netVars
       ELSE /\ ret' = NoRet
            /\ size' = sz
            /\ weights' = NewSymDense(sz)
            /\ bias' = NewVector(sz)
            /\ neurons' = [i \in 0 .. sz - 1 |-> 0]
            /\ UNCHANGED <<method, memorised>>
    /\ UNCHANGED <<variant, loopVars, countVars>>

\* An index expression ps[k][x] panics (index out of range) when x >= len(ps[k]).
InRange(p, x) == x \in DOMAIN p.v

\* The loops of storeHebbian on n.weights, entered at (i, j, k): the weights
\* when the loops end, or when an index expression panics.
RECURSIVE NetM_storeHebbianLoop(_, _, _, _, _, _)
NetM_storeHebbianLoop(w, ps, n, i, j, k) ==
    IF i >= n THEN [w |-> w, panic |-> FALSE]
    ELSE IF j >= n THEN NetM_storeHebbianLoop(w, ps, n, i + 1, i + 2, 1)
    ELSE IF k > Len(ps) THEN NetM_storeHebbianLoop(w, ps, n, i, j + 1, 1)
    ELSE IF ~InRange(ps[k], i) \/ ~InRange(ps[k], j) THEN [w |-> w, panic |-> TRUE]
    ELSE NetM_storeHebbianLoop(
             SetSym(w, i, j,
                    RatAdd(At(w, i, j),
                           RatDivInt(FromInt(ps[k].v[i] * ps[k].v[j]), Len(ps)))),
             ps, n, i, j, k + 1)

NetM_storeHebbian(w, ps, n) == NetM_storeHebbianLoop(w, ps, n, 0, 1, 1)

\* n.localField(p, i, j): the sum over k < len(n.neurons), k # i, k # j
RECURSIVE NetM_localFieldLoop(_, _, _, _, _, _)
NetM_localFieldLoop(w, p, n, i, j, k) ==
    IF k >= n THEN Zero
    ELSE IF k # i /\ k # j
         THEN RatAdd(RatMul(At(w, i, k), FromInt(p.v[k])),
                     NetM_localFieldLoop(w, p, n, i, j, k + 1))
         ELSE NetM_localFieldLoop(w, p, n, i, j, k + 1)

NetM_localField(w, p, n, i, j) == NetM_localFieldLoop(w, p, n, i, j, 0)

\* One pass for (i, j, k) reads ps[k][i], ps[k][j] and, in localField, every
\* ps[k][x] with x < len(n.neurons), x # i, x # j, before it writes.
RECURSIVE NetM_storeStorkeyLoop(_, _, _, _, _, _)
NetM_storeStorkeyLoop(w, ps, n, i, j, k) ==
    IF i >= n THEN [w |-> w, panic |-> FALSE]
    ELSE IF j >= n THEN NetM_storeStorkeyLoop(w, ps, n, i + 1, i + 2, 1)
    ELSE IF k > Len(ps) THEN NetM_storeStorkeyLoop(w, ps, n, i, j + 1, 1)
    ELSE IF \E x \in 0 .. n - 1 : ~InRange(ps[k], x) THEN [w |-> w, panic |-> TRUE]
    ELSE LET pDim == PLen(ps[1])
             s1 == FromInt(ps[k].v[i] * ps[k].v[j])
             s2 == RatSub(s1, RatMul(FromInt(ps[k].v[i]),
                                     NetM_localField(w, ps[k], n, j, i)))
             s3 == RatSub(s2, RatMul(FromInt(ps[k].v[j]),
                                     NetM_localField(w, ps[k], n, i, j)))
             sum == RatDivInt(s3, pDim)
         IN  NetM_storeStorkeyLoop(SetSym(w, i, j, RatAdd(At(w, i, j), sum)),
                                   ps, n, i, j, k + 1)

NetM_storeStorkey(w, ps, n) == NetM_storeStorkeyLoop(w, ps, n, 0, 1, 1)

\* The body of Store(ps, method) on the weights w of a network of n neurons:
\* the error returned ("none" for nil, a panic when the call does not return)
\* and the weights it leaves.
NetM_StoreResult(w, n, ps, m) ==
    IF ps.nil \/ Len(ps.ps) = 0
    THEN [err |-> "invalid pattern supplied", w |-> w]
    ELSE IF PLen(ps.ps[1]) # n
    THEN [err |-> "dimension mismatch", w |-> w]
    ELSE LET r == IF m = "storkey"
                  THEN NetM_storeStorkey(w, ps.ps, n)
                  ELSE NetM_storeHebbian(w, ps.ps, n)
         IN  [err |-> IF r.panic THEN "panic: index out of range" ELSE "none",
              w |-> r.w]

NetM_Store(ps, m) ==
    /\ variant = "NetM"
    /\ pc = "idle"
    /\ size > 0
    /\ nstores < MaxStores
    /\ nstores' = nstores + 1
    /\ pc' = "returned"
    /\ call' = [NoCall EXCEPT !.op = "Store", !.patterns = ps, !.method = m]
    /\ LET r == NetM_StoreResult(weights, size, ps, m)
       IN  /\ ret' = Err(r.err)
           /\ weights' = r.w
    /\ UNCHANGED <<variant, size, method, bias, neurons, memorised, loopVars, nrestores>>

----------------------------------------------------------------------------
\* Variant "Network"

\* strings.EqualFold, on the strings of the model
ToLower(s) ==
    CASE s = "Hebbian" -> "hebbian"
      [] s = "STORKEY" -> "storkey"
      [] s = "Async" -> "async"
      [] OTHER -> s
EqualFold(s, t) == ToLower(s) = ToLower(t)

\* The checks of NewNetwork: the error returned, "none" when there is none.
NewNetworkErr(sz, m) ==
    IF sz <= 0 THEN "invalid network size"
    ELSE IF ~EqualFold("hebbian", m) /\ ~EqualFold("storkey", m)
    THEN "unsupported training method"
    ELSE "none"

NewNetwork(sz, m) ==
    /\ variant = "Network"
    /\ pc = "idle"
    /\ size = 0
    /\ pc' = "returned"
    /\ call' = [NoCall EXCEPT !.op = "NewNetwork", !.size = sz, !.method = m]
    /\ IF NewNetworkErr(sz, m) # "none"
       THEN /\ ret' = Err(NewNetworkErr(sz, m))
            /\ UNCHANGED netVars
       ELSE /\ ret' = NoRet
            /\ size' = sz
            /\ method' = m
            /\ weights' = NewSymDense(sz)
            /\ bias' = NewVector(sz)
            /\ memorised' = 0
            /\ UNCHANGED neurons
    /\ UNCHANGED <<variant, loopVars, countVars>>

\* storeHebbian and storeStorkey: the loops are those of hebbian and storkey, on
\* a matrix w of the call's own, which is then added to n.weights.
Network_storeHebbian(w, patterns) ==
    LET dim == PLen(patterns[1])
    IN  AddSym(w, hebbianLoop(NewSymDense(dim), patterns, dim, 0, 1, 1))

Network_storeStorkey(w, patterns) ==
    LET dim == PLen(patterns[1])
    IN  AddSym(w, storkeyLoop(NewSymDense(dim), patterns, dim, 0, 1, 1))

Min(S) == CHOOSE x \in S : \A y \in S : x <= y

\* The body of Store(patterns) on the weights w of a network of n neurons and
\* training method m: the error returned and the weights it leaves.
Network_StoreResult(w, m, n, patterns) ==
    LET ps == patterns.ps
        bad == {k \in 1 .. Len(ps) : ps[k].nil \/ PLen(ps[k]) # n}
    IN  IF patterns.nil \/ Len(ps) = 0
        THEN [err |-> "invalid patterns supplied", w |-> w]
        ELSE IF bad # {}
        THEN [err |-> IF ps[Min(bad)].nil THEN "invalid pattern supplied"
                      ELSE "invalid pattern dimension",
              w |-> w]
        ELSE [err |-> "none",
              w |-> CASE m = "hebbian" -> Network_storeHebbian(w, ps)
                      [] m = "storkey" -> Network_storeStorkey(w, ps)
                      [] OTHER -> w]

Network_Store(patterns) ==
    /\ variant = "Network"
    /\ pc = "idle"
    /\ size > 0
    /\ nstores < MaxStores
    /\ nstores' = nstores + 1
    /\ pc' = "returned"
    /\ call' = [NoCall EXCEPT !.op = "Store", !.patterns = patterns]
    /\ LET r == Network_StoreResult(weights, method, size, patterns)
       IN  /\ ret' = Err(r.err)
           /\ weights' = r.w
    /\ UNCHANGED <<variant, size, method, bias, neurons, memorised, loopVars, nrestores>>

\* Row i of w times the vector v of float64, from column j on.
RECURSIVE dotRow(_, _, _, _)
dotRow(w, v, i, j) ==
    IF j >= Cardinality(DOMAIN v) THEN Zero
    ELSE RatAdd(RatMul(At(w, i, j), v[j]), dotRow(w, v, i, j + 1))

\* A MulVec that writes each row's product into v before it computes the next.
RECURSIVE MulVecRows(_, _, _)
MulVecRows(w, v, i) ==
    IF i >= Cardinality(DOMAIN v) THEN v
    ELSE MulVecRows(w, [v EXCEPT ![i] = dotRow(w, v, i, 0)], i + 1)
MulVecAliased(w, v) == MulVecRows(w, v, 0)

\* v.MulVec(a, b) with v == b: the product a * b of the matrix and the vector as
\* it was, stored into the receiver.
MulVec(w, v) == [i \in DOMAIN v |-> dotRow(w, v, i, 0)]

\* The loop of restoreSync over the vector v, from i on.
RECURSIVE restoreSyncLoop(_, _, _)
restoreSyncLoop(v, b, i) ==
    IF i >= Cardinality(DOMAIN v) THEN v
    ELSE restoreSyncLoop(
             [v EXCEPT ![i] = IF RatGeq(v[i], b[i]) THEN FromInt(1) ELSE FromInt(-1)],
             b, i + 1)

restoreSync(w, b, p) ==
    LET v0 == [i \in DOMAIN p.v |-> FromInt(p.v[i])]
        v1 == restoreSyncLoop(MulVec(w, v0), b, 0)
    IN  Pat([i \in DOMAIN v1 |-> v1[i][1]])

Modes == {"sync", "async", "Async", "foobar"}

\* Restore(p, mode, iters): all of it in mode sync, up to the first sweep in
\* mode async.
Network_Restore(p, mode, iters) ==
    /\ variant = "Network"
    /\ pc = "idle"
    /\ size > 0
    /\ nrestores < MaxRestores
    /\ nrestores' = nrestores + 1
    /\ call' = [NoCall EXCEPT !.op = "Restore", !.p = p, !.mode = mode,
                              !.iters = iters]
    /\ eqiter' = 0
    /\ maxiter' = 0
    /\ visited' = {}
    /\ IF p.nil
       THEN /\ ret' = Err("invalid pattern supplied")
            /\ pc' = "returned"
            /\ pat' = p
       ELSE IF PLen(p) # size
       THEN /\ ret' = Err("invalid pattern dimension")
            /\ pc' = "returned"
            /\ pat' = p
       ELSE IF EqualFold("async", mode) /\ iters <= 0
       THEN /\ ret' = Err("invalid number of iterations")
            /\ pc' = "returned"
            /\ pat' = p
       ELSE IF mode = "sync"
       THEN /\ pat' = restoreSync(weights, bias, p)
            /\ ret' = [err |-> "none", p |-> pat', e |-> Zero, n |-> 0]
            /\ pc' = "returned"
       ELSE IF mode = "async"
       THEN /\ ret' = NoRet
            /\ pc' = "restore"
            /\ pat' = p
       ELSE /\ ret' = Err("unsupported mode")
            /\ pc' = "returned"
            /\ pat' = p
    /\ UNCHANGED <<variant, netVars, nstores>>

\* One pass of the inner loop of restoreAsync, for unit i, the next of
\* seq := rand.Perm(p.Len()); maxiter counts the sweeps done, so that the
\* loop's iters is call.iters - maxiter.
Network_RestoreUnit(i) ==
    /\ variant = "Network"
    /\ pc = "restore"
    /\ i \in (0 .. size - 1) \ visited
    /\ LET nState == unitState(weights, bias, pat, i)
           p1 == IF pat.v[i] * nState < 0 THEN [pat EXCEPT !.v[i] = nState] ELSE pat
           swept == visited \cup {i} = 0 .. size - 1
           max1 == IF swept THEN maxiter + 1 ELSE maxiter
       IN  /\ pat' = p1
           /\ maxiter' = max1
           /\ visited' = IF swept THEN {} ELSE visited \cup {i}
           /\ IF call.iters - max1 > 0
              THEN /\ pc' = "restore"
                   /\ UNCHANGED ret
              ELSE /\ pc' = "returned"
                   /\ ret' = [err |-> "none", p |-> p1, e |-> Zero, n |-> 0]
    /\ UNCHANGED <<variant, netVars, call, eqiter, countVars>>

Network_Train(patterns) ==
    /\ nstores < MaxTrain
    /\ nrestores = 0
    /\ Network_Store(patterns)

----------------------------------------------------------------------------
\* Energy

\* An Energy that tells no pattern from another.
Net_EnergyResultUnchecked(w, b, p, n) == [err |-> "none", e |-> Zero]

\* The loops of Net.Energy over the higher triangle, from (i, j) on:
\* energy += n.weights.At(i, j) * p[i] * p[j]
RECURSIVE Net_energyLoop(_, _, _, _, _)
Net_energyLoop(w, p, n, i, j) ==
    IF i >= n THEN Zero
    ELSE IF j >= n THEN Net_energyLoop(w, p, n, i + 1, i + 2)
    ELSE RatAdd(RatMul(At(w, i, j), FromInt(p.v[i] * p.v[j])),
                Net_energyLoop(w, p, n, i, j + 1))

\* bias += n.bias.RawVector().Data[i] * p[i], from i on
RECURSIVE Net_biasLoop(_, _, _, _)
Net_biasLoop(b, p, n, i) ==
    IF i >= n THEN Zero
    ELSE RatAdd(RatMul(b[i], FromInt(p.v[i])), Net_biasLoop(b, p, n, i + 1))

\* An energy that is the sum of the two loops, not negated.
Net_EnergyValuePlain(w, b, p, n) ==
    RatAdd(Net_energyLoop(w, p, n, 0, 1), Net_biasLoop(b, p, n, 0))

\* return -(energy + bias), nil
Net_EnergyValue(w, b, p, n) ==
    RatNeg(RatAdd(Net_energyLoop(w, p, n, 0, 1), Net_biasLoop(b, p, n, 0)))

\* Net.Energy(p) on a network of n neurons: the energy and the error returned.
Net_EnergyResult(w, b, p, n) ==
    IF p.nil THEN [err |-> "invalid pattern supplied", e |-> Zero]
    ELSE IF PLen(p) # n THEN [err |-> "dimension mismatch", e |-> Zero]
    ELSE [err |-> "none", e |-> Net_EnergyValue(w, b, p, n)]

\* mat64.Dot(a, b): the sum of a[i] * b[i], from i on
RECURSIVE Dot(_, _, _)
Dot(a, v, i) ==
    IF i >= Cardinality(DOMAIN v) THEN Zero
    ELSE RatAdd(RatMul(a[i], v[i]), Dot(a, v, i + 1))

\* mat64.Inner(x, A, y): x^T A y
Inner(x, w, y) == Dot(x, MulVec(w, y), 0)

\* energy := -0.5 * mat64.Inner(p.Vec(), n.weights, p.Vec())
\* energy += mat64.Dot(n.bias, p.Vec())
Network_EnergyValue(w, b, p) ==
    LET v == [i \in DOMAIN p.v |-> FromInt(p.v[i])]
    IN  RatAdd(RatMul(Rat(-1, 2), Inner(v, w, v)), Dot(b, v, 0))

\* Network.Energy(p) on a network of n neurons.
Network_EnergyResult(w, b, p, n) ==
    IF p.nil THEN [err |-> "invalid pattern supplied", e |-> Zero]
    ELSE IF PLen(p) # n THEN [err |-> "invalid pattern dimension", e |-> Zero]
    ELSE [err |-> "none", e |-> Network_EnergyValue(w, b, p)]

\* Energy(p) of the variants "Net" and "Network"
Energy(p) ==
    /\ pc = "idle"
    /\ size > 0
    /\ pc' = "returned"
    /\ call' = [NoCall EXCEPT !.op = "Energy", !.p = p]
    /\ pat' = p
    /\ LET r == IF variant = "Net"
                THEN Net_EnergyResult(weights, bias, p, size)
                ELSE Network_EnergyResult(weights, bias, p, size)
       IN  ret' = [err |-> r.err, p |-> NilPattern, e |-> r.e, n |-> 0]
    /\ UNCHANGED <<variant, netVars, eqiter, maxiter, visited, countVars>>

----------------------------------------------------------------------------
\* Variant "Network": Capacity() and Memorised()

\* math.Log(float64(c)) in millionths, rounded down, for c = 1 .. 16: the
\* logarithm of c > 1 lies strictly between LogMicro[c] and LogMicro[c] + 1
\* millionths, and math.Log(1) is exactly 0.
LogMicro ==
    <<0, 693147, 1098612, 1386294, 1609437, 1791759, 1945910, 2079441,
      2197224, 2302585, 2397895, 2484906, 2564949, 2639057, 2708050, 2772588>>

\* What int(math.Floor(x)) can be when x is +Inf: the conversion succeeds with
\* an implementation-dependent value, the smallest int where the conversion
\* instruction reports the indefinite value and the largest where it saturates
\* (int of 32 bits).
MinInt == -2147483647 - 1
MaxInt == 2147483647
IntOfInf == {MinInt, MaxInt}

\* int(math.Floor(float64(c) / (2 * math.Log(float64(c))))): for c > 1 the k
\* with 2 k ln c <= c < 2 (k + 1) ln c; for c = 1 the quotient is 1 / 0 = +Inf.
capacityHebbian(c, conv) ==
    IF c = 1 THEN conv
    ELSE CHOOSE k \in 0 .. c :
             /\ 2 * k * (LogMicro[c] + 1) <= c * 1000000
             /\ 2 * (k + 1) * LogMicro[c] > c * 1000000

\* int(math.Floor(float64(c) / (2 * math.Sqrt(math.Log(float64(c)))))): for
\* c > 1 the k with 4 k^2 ln c <= c^2 < 4 (k + 1)^2 ln c; for c = 1 the
\* quotient is 1 / 0 = +Inf.
capacityStorkey(c, conv) ==
    IF c = 1 THEN conv
    ELSE CHOOSE k \in 0 .. c \div 2 + 1 :
             /\ 4 * k * k * (LogMicro[c] + 1) <= c * c * 1000000
             /\ 4 * (k + 1) * (k + 1) * LogMicro[c] > c * c * 1000000

\* A Capacity that compares the method with "storkey" letter by letter.
Network_CapacityValueExact(c, m, conv) ==
    IF m = "storkey" THEN capacityStorkey(c, conv) ELSE capacityHebbian(c, conv)

\* The body of Capacity() on a network of c neurons and training method m, on a
\* build that converts +Inf to conv.
Network_CapacityValue(c, m, conv) ==
    IF EqualFold("storkey", m) THEN capacityStorkey(c, conv)
    ELSE capacityHebbian(c, conv)

Network_Capacity(conv) ==
    /\ variant = "Network"
    /\ pc = "idle"
    /\ size > 0
    /\ pc' = "returned"
    /\ call' = [NoCall EXCEPT !.op = "Capacity", !.conv = conv]
    /\ ret' = [NoRet EXCEPT !.n = Network_CapacityValue(size, method, conv)]
    /\ UNCHANGED <<variant, netVars, loopVars, countVars>>

\* Memorised(): return n.memorised
Network_Memorised ==
    /\ variant = "Network"
    /\ pc = "idle"
    /\ size > 0
    /\ pc' = "returned"
    /\ call' = [NoCall EXCEPT !.op = "Memorised"]
    /\ ret' = [NoRet EXCEPT !.n = memorised]
    /\ UNCHANGED <<variant, netVars, loopVars, countVars>>

----------------------------------------------------------------------------
\* Encode and AddNoise, in the variants of src/hopfield/pattern.go:
\*   "PatternStruct"  lines 1-126    type Pattern struct { v *mat.VecDense }
\*   "PatternSlice"   lines 128-201  type Pattern []float64
\* The values of a slice are modelled by integers: -1, 0, 1 and 2 stand for a
\* negative value, zero, 1.0 and any other positive value.

\* An encoding that takes zero for positive.
encodeValueZeroPositive(x) == IF x < 0 THEN -1 ELSE 1

\* if data[i] <= 0.0 { -1.0 } else { 1.0 }
encodeValue(x) == IF x <= 0 THEN -1 ELSE 1

\* The loop of Encode over data
encodeLoop(data) == [i \in DOMAIN data |-> encodeValue(data[i])]

\* Integer division of Go: the quotient truncated toward zero.
GoDiv(a, b) == IF a >= 0 THEN a \div b ELSE -((-a) \div b)

\* A loop that breaks once floor(pcnt * n / 100) passes are done.
RECURSIVE noiseCountFloor(_, _, _)
noiseCountFloor(n, pcnt, i) ==
    IF i < n /\ ~(i >= GoDiv(pcnt * n, 100)) THEN noiseCountFloor(n, pcnt, i + 1)
    ELSE i

\* for i := 0; i < n; i++ { if i > (pcnt*n)/100 { break } ... }: the number of
\* passes of the loop that draw and flip, counted from i on.
RECURSIVE noiseCount(_, _, _)
noiseCount(n, pcnt, i) ==
    IF i < n /\ ~(i > GoDiv(pcnt * n, 100)) THEN noiseCount(n, pcnt, i + 1)
    ELSE i

\* The passes of the loop of AddNoise from the k-th on, js[k] being the value
\* of j := rand.Intn(n) in the k-th: np[j] = -np[j]
RECURSIVE noiseLoop(_, _, _)
noiseLoop(v, js, k) ==
    IF k > Len(js) THEN v
    ELSE noiseLoop([v EXCEPT ![js[k]] = -v[js[k]]], js, k + 1)

\* Encode(data): the slice variant fills a pattern of its own, the struct
\* variant writes into data and wraps it.
Pattern_Encode(data) ==
    /\ variant \in {"PatternSlice", "PatternStruct"}
    /\ pc = "idle"
    /\ pc' = "returned"
    /\ call' = [NoCall EXCEPT !.op = "Encode", !.p = Pat(data)]
    /\ ret' = [err |-> "none", p |-> Pat(encodeLoop(data)), e |-> Zero, n |-> 0]
    /\ pat' = IF variant = "PatternSlice" THEN Pat(data) ELSE Pat(encodeLoop(data))
    /\ draws' = <<>>
    /\ UNCHANGED <<variant, netVars, eqiter, maxiter, visited, countVars, changed>>

\* AddNoise(p, pcnt): the slice variant flips in a copy np of p, the struct
\* variant in p itself, which it returns.
Pattern_AddNoise(p, pcnt) ==
    /\ variant \in {"PatternSlice", "PatternStruct"}
    /\ pc = "idle"
    /\ pc' = "returned"
    /\ call' = [NoCall EXCEPT !.op = "AddNoise", !.p = p, !.pcnt = pcnt]
    /\ \E js \in [1 .. noiseCount(PLen(p), pcnt, 0) -> 0 .. PLen(p) - 1] :
           /\ draws' = js
           /\ ret' = [err |-> "none", p |-> Pat(noiseLoop(p.v, js, 1)), e |-> Zero, n |-> 0]
           /\ pat' = IF variant = "PatternSlice" THEN p
                     ELSE Pat(noiseLoop(p.v, js, 1))
    /\ UNCHANGED <<variant, netVars, eqiter, maxiter, visited, countVars, changed>>

\* The body of p.Set(i, val) on the vector v of p: the error returned (a panic
\* when the index expression Data[i] is out of range) and the vector it leaves.
Pattern_SetResult(v, i, val) ==
    IF i > Cardinality(DOMAIN v) THEN [err |-> "invalid index", v |-> v]
    ELSE IF i \notin DOMAIN v THEN [err |-> "panic: index out of range", v |-> v]
    ELSE [err |-> "none", v |-> [v EXCEPT ![i] = IF val <= 0 THEN -1 ELSE 1]]

Pattern_Set(p, i, val) ==
    /\ variant = "PatternStruct"
    /\ pc = "idle"
    /\ pc' = "returned"
    /\ call' = [NoCall EXCEPT !.op = "Set", !.p = p, !.i = i, !.val = val]
    /\ ret' = Err(Pattern_SetResult(p.v, i, val).err)
    /\ pat' = Pat(Pattern_SetResult(p.v, i, val).v)
    /\ draws' = <<>>
    /\ UNCHANGED <<variant, netVars, eqiter, maxiter, visited, countVars, changed>>

----------------------------------------------------------------------------
\* Variant "NetFlag" (src/unnamed/part_004): Store(pattern) and
\* Restore(pattern, iters) of a network whose neurons keep a changed flag.  The
\* variant has no equilibrium counter: eqiter is kept for it as the history of
\* the call, the number of unit updates since the last that changed a state.

NetFlag_NewNet(sz) ==
    /\ variant = "NetFlag"
    /\ pc = "idle"
    /\ size = 0
    /\ pc' = "returned"
    /\ call' = [NoCall EXCEPT !.op = "NewNet", !.size = sz]
    /\ IF sz <= 0
       THEN /\ ret' = Err("invalid network size")
            /\ UNCHANGED <<netVars, changed>>
       ELSE /\ ret' = NoRet
            /\ size' = sz
            /\ weights' = NewSymDense(sz)
            /\ bias' = NewVector(sz)
            /\ neurons' = [i \in 0 .. sz - 1 |-> 0]
            /\ changed' = [i \in 0 .. sz - 1 |-> FALSE]
            /\ UNCHANGED <<method, memorised>>
    /\ UNCHANGED <<variant, loopVars, countVars, draws>>

\* if pattern[i] <= 0.0 { pattern[i] = -1.0 } else { pattern[i] = 1.0 }
NetFlag_remap(v) == [i \in DOMAIN v |-> IF v[i] <= 0 THEN -1 ELSE 1]

\* The loops of Store on n.weights, entered at (i, j)
RECURSIVE NetFlag_storeLoop(_, _, _, _, _)
NetFlag_storeLoop(w, v, n, i, j) ==
    IF i >= n THEN w
    ELSE IF j >= n THEN NetFlag_storeLoop(w, v, n, i + 1, i + 2)
    ELSE NetFlag_storeLoop(
             SetSym(w, i, j, RatAdd(At(w, i, j), FromInt(v[i] * v[j]))),
             v, n, i, j + 1)

NetFlag_StoreErr(p, n) ==
    IF p.nil THEN "invalid data supplied"
    ELSE IF PLen(p) # n THEN "dimension mismatch"
    ELSE "none"

NetFlag_Store(p) ==
    /\ variant = "NetFlag"
    /\ pc = "idle"
    /\ size > 0
    /\ nstores < MaxTrain
    /\ nrestores = 0
    /\ nstores' = nstores + 1
    /\ pc' = "returned"
    /\ call' = [NoCall EXCEPT !.op = "Store", !.p = p]
    /\ ret' = Err(NetFlag_StoreErr(p, size))
    /\ IF NetFlag_StoreErr(p, size) # "none"
       THEN /\ pat' = p
            /\ UNCHANGED weights
       ELSE /\ pat' = Pat(NetFlag_remap(p.v))
            /\ weights' = NetFlag_storeLoop(weights, NetFlag_remap(p.v), size, 0, 1)
    /\ UNCHANGED <<variant, size, method, bias, neurons, memorised, eqiter, maxiter,
                   visited, nrestores, draws, changed>>

\* n.updateNeuron(idx, state), on the neuron's state s and flag c: the state
\* and the flag it leaves
updateNeuron(s, c, state) == IF s # state THEN <<state, TRUE>> ELSE <<s, c>>

NetFlag_RestoreErr(p, iters, n) ==
    IF p.nil THEN "invalid data supplied"
    ELSE IF PLen(p) # n THEN "dimension mismatch"
    ELSE IF iters <= 0 THEN "invalid number of iterations"
    ELSE "none"

\* Restore(pattern, iters), up to the first sweep
NetFlag_Restore(p, iters) ==
    /\ variant = "NetFlag"
    /\ pc = "idle"
    /\ size > 0
    /\ nrestores < MaxRestores
    /\ nrestores' = nrestores + 1
    /\ call' = [NoCall EXCEPT !.op = "Restore", !.p = p, !.iters = iters]
    /\ eqiter' = 0
    /\ maxiter' = 0
    /\ visited' = {}
    /\ IF NetFlag_RestoreErr(p, iters, size) # "none"
       THEN /\ ret' = Err(NetFlag_RestoreErr(p, iters, size))
            /\ pc' = "returned"
            /\ pat' = p
            /\ UNCHANGED <<neurons, changed>>
       ELSE /\ ret' = NoRet
            /\ pc' = "restore"
            /\ pat' = Pat(NetFlag_remap(p.v))
            /\ neurons' = [i \in 0 .. size - 1 |-> NetFlag_remap(p.v)[i]]
            /\ changed' = [i \in 0 .. size - 1 |-> FALSE]
    /\ UNCHANGED <<variant, size, method, weights, bias, memorised, nstores, draws>>

\* One pass of the inner loop of Restore, for unit j, the next of seq; after the
\* last unit of seq, the check of the flags and the step of the outer loop.
NetFlag_RestoreUnit(j) ==
    /\ variant = "NetFlag"
    /\ pc = "restore"
    /\ j \in (0 .. size - 1) \ visited
    /\ LET state == unitState(weights, bias, pat, j)
           p1 == [pat EXCEPT !.v[j] = state]
           upd == updateNeuron(neurons[j], changed[j], state)
           changed1 == [changed EXCEPT ![j] = upd[2]]
           swept == visited \cup {j} = 0 .. size - 1
           netChanged == \E i \in 0 .. size - 1 : changed1[i]
       IN  /\ pat' = p1
           /\ neurons' = [neurons EXCEPT ![j] = upd[1]]
           /\ changed' = changed1
           /\ eqiter' = IF neurons[j] # state THEN 0 ELSE eqiter + 1
           /\ IF ~swept
              THEN /\ visited' = visited \cup {j}
                   /\ pc' = "restore"
                   /\ UNCHANGED <<maxiter, ret>>
              ELSE IF ~netChanged
              THEN /\ pc' = "returned"
                   /\ ret' = [err |-> "none", p |-> p1, e |-> Zero, n |-> 0]
                   /\ UNCHANGED <<maxiter, visited>>
              ELSE /\ maxiter' = maxiter + 1
                   /\ visited' = {}
                   /\ IF loopCond(maxiter + 1, call.iters)
                      THEN /\ pc' = "restore"
                           /\ UNCHANGED ret
                      ELSE /\ pc' = "returned"
                           /\ ret' = [err |-> "none", p |-> p1, e |-> Zero, n |-> 0]
    /\ UNCHANGED <<variant, size, method, weights, bias, memorised, call, countVars,
                   draws>>

----------------------------------------------------------------------------
\* The callers, with the arguments they hand in.

StoreMethods == {"hebbian", "storkey", "foobar"}

Call_NetM_NewNet ==
    /\ pc = "idle" /\ size = 0
    /\ UNCHANGED <<draws, changed>>
    /\ \E sz \in -1 .. MaxSize : NetM_NewNet(sz)

Call_NetM_Store ==
    /\ pc = "idle" /\ size > 0
    /\ UNCHANGED <<draws, changed>>
    /\ \E ps \in InputBatches, m \in StoreMethods : NetM_Store(ps, m)

Call_NewNetwork ==
    /\ pc = "idle" /\ size = 0
    /\ UNCHANGED <<draws, changed>>
    /\ \E sz \in -1 .. MaxSize, m \in Methods : NewNetwork(sz, m)

Call_Network_Store ==
    /\ pc = "idle" /\ size > 0
    /\ UNCHANGED <<draws, changed>>
    /\ \E patterns \in InputBatches : Network_Store(patterns)

Call_Network_Train ==
    /\ pc = "idle" /\ size > 0
    /\ UNCHANGED <<draws, changed>>
    /\ \E patterns \in InputBatches : Network_Train(patterns)

Call_Network_Restore ==
    /\ pc = "idle" /\ size > 0 /\ nrestores < MaxRestores
    /\ UNCHANGED <<draws, changed>>
    /\ \E p \in InputPatterns, mode \in Modes, iters \in -1 .. MaxIters :
           Network_Restore(p, mode, iters)

Step_Network_Restore ==
    /\ pc = "restore"
    /\ UNCHANGED <<draws, changed>>
    /\ \E i \in 0 .. size - 1 : Network_RestoreUnit(i)

\* The callers of variant "Net", with the arguments they hand in.
Call_NewNet ==
    /\ pc = "idle" /\ size = 0
    /\ UNCHANGED <<draws, changed>>
    /\ \E sz \in -1 .. MaxSize, m \in Methods : NewNet(sz, m)

Call_Net_Store ==
    /\ pc = "idle" /\ size > 0
    /\ UNCHANGED <<draws, changed>>
    /\ \E patterns \in InputBatches : Net_Store(patterns)

Call_Net_Train ==
    /\ pc = "idle" /\ size > 0
    /\ UNCHANGED <<draws, changed>>
    /\ \E patterns \in InputBatches : Net_Train(patterns)

Call_Net_Restore ==
    /\ pc = "idle" /\ size > 0 /\ nrestores < MaxRestores
    /\ UNCHANGED <<draws, changed>>
    /\ \E p \in InputPatterns, maxiters \in IterInputs, eqiters \in EqInputs :
           Net_Restore(p, maxiters, eqiters)

Step_Net_Restore ==
    /\ pc = "restore"
    /\ UNCHANGED <<draws, changed>>
    /\ \E i \in 0 .. size - 1 : Net_RestoreUnit(i)

NextNetStore ==
    \/ Call_NewNet
    \/ Call_Net_Store
    \/ Return

NextNetRestore ==
    \/ Call_NewNet
    \/ Call_Net_Train
    \/ Call_Net_Restore
    \/ Step_Net_Restore
    \/ Return

\* Every variant's constructor and Store.
NextStore ==
    \/ Call_NewNet
    \/ Call_Net_Store
    \/ Call_NetM_NewNet
    \/ Call_NetM_Store
    \/ Call_NewNetwork
    \/ Call_Network_Store
    \/ Return

NextNetworkRestore ==
    \/ Call_NewNetwork
    \/ Call_Network_Train
    \/ Call_Network_Restore
    \/ Step_Network_Restore
    \/ Return

Spec == Init /\ [][NextStore]_vars
SpecNetStore == InitNet /\ [][NextNetStore]_vars
SpecNetRestore == InitNet /\ [][NextNetRestore]_vars
SpecNetworkRestore == InitNetwork /\ [][NextNetworkRestore]_vars

\* Energy of the variants "Net" and "Network", on networks of any symmetric
\* weights of zero diagonal and any bias: Weights() and Bias() hand the
\* network's own matrices to the caller.
Entries == {FromInt(x) : x \in -MaxEntry .. MaxEntry}
SymWeights(n) ==
    {w \in [0 .. n - 1 -> [0 .. n - 1 -> Entries]] :
        \A i \in 0 .. n - 1 :
            w[i][i] = Zero /\ \A j \in 0 .. n - 1 : w[i][j] = w[j][i]}
InitEnergy ==
    /\ variant \in {"Net", "Network"}
    /\ size \in 1 .. MaxEnergySize
    /\ method = "hebbian"
    /\ weights \in SymWeights(size)
    /\ bias \in [0 .. size - 1 -> Entries]
    /\ neurons = NewVector(size)
    /\ memorised = 0
    /\ pc = "idle"
    /\ call = NoCall
    /\ ret = NoRet
    /\ pat = NilPattern
    /\ eqiter = 0
    /\ maxiter = 0
    /\ visited = {}
    /\ nstores = 0
    /\ nrestores = 0
    /\ draws = <<>>
    /\ changed = <<>>
Call_Energy ==
    /\ pc = "idle"
    /\ UNCHANGED <<draws, changed>>
    /\ \E p \in InputPatterns : Energy(p)
NextEnergy == Call_Energy \/ Return
SpecEnergy == InitEnergy /\ [][NextEnergy]_vars

\* Encode and AddNoise of the two variants of pattern.go.
RawValues == {-1, 0, 1, 2}
RawInputs == UNION {[0 .. n - 1 -> RawValues] : n \in 0 .. MaxPatLen}
NoiseInputs == UNION {Bipolar(n) : n \in 0 .. MaxPatLen}
PcntInputs == {0, 25, 50, 75, 100}
InitPattern == variant \in {"PatternSlice", "PatternStruct"} /\ Fresh
Call_Encode == pc = "idle" /\ \E data \in RawInputs : Pattern_Encode(data)
Call_AddNoise ==
    /\ pc = "idle"
    /\ \E p \in NoiseInputs, pcnt \in PcntInputs : Pattern_AddNoise(p, pcnt)
Call_Set ==
    /\ pc = "idle" /\ variant = "PatternStruct"
    /\ \E data \in RawInputs, i \in -1 .. MaxPatLen + 1, val \in RawValues :
           Pattern_Set(Pat(data), i, val)
NextPattern == Call_Encode \/ Call_AddNoise \/ Call_Set \/ Return
SpecPattern == InitPattern /\ [][NextPattern]_vars

\* Capacity of networks of 1 .. MaxCapSize neurons.
Call_NewNetworkOfSize ==
    /\ pc = "idle" /\ size = 0
    /\ UNCHANGED <<draws, changed>>
    /\ \E sz \in 1 .. MaxCapSize, m \in Methods : NewNetwork(sz, m)
Call_Network_Capacity ==
    /\ pc = "idle" /\ size > 0
    /\ UNCHANGED <<draws, changed>>
    /\ \E conv \in IntOfInf : Network_Capacity(conv)
NextCapacity == Call_NewNetworkOfSize \/ Call_Network_Capacity \/ Return
SpecCapacity == InitNetwork /\ [][NextCapacity]_vars

\* Memorised between the Store calls of a network.
Call_Network_Memorised ==
    /\ pc = "idle" /\ size > 0
    /\ UNCHANGED <<draws, changed>>
    /\ Network_Memorised
NextMemorised ==
    Call_NewNetwork \/ Call_Network_Store \/ Call_Network_Memorised \/ Return
SpecMemorised == InitNetwork /\ [][NextMemorised]_vars

\* Store and Restore of the variant "NetFlag".
InitNetFlag == variant = "NetFlag" /\ Fresh
Call_NetFlag_NewNet ==
    /\ pc = "idle" /\ size = 0
    /\ \E sz \in -1 .. MaxSize : NetFlag_NewNet(sz)
Call_NetFlag_Store ==
    /\ pc = "idle" /\ size > 0
    /\ \E p \in InputPatterns : NetFlag_Store(p)
Call_NetFlag_Restore ==
    /\ pc = "idle" /\ size > 0
    /\ \E p \in InputPatterns, iters \in IterInputs : NetFlag_Restore(p, iters)
Step_NetFlag_Restore ==
    /\ pc = "restore"
    /\ \E j \in 0 .. size - 1 : NetFlag_RestoreUnit(j)
NextFlagRestore ==
    \/ Call_NetFlag_NewNet
    \/ Call_NetFlag_Store
    \/ Call_NetFlag_Restore
    \/ Step_NetFlag_Restore
    \/ Return
SpecFlagRestore == InitNetFlag /\ [][NextFlagRestore]_vars

\* Restore of the variants "Net" and "Network".
InitRestore == variant \in {"Net", "Network"} /\ Fresh
NextRestore ==
    \/ Call_NewNet
    \/ Call_Net_Train
    \/ Call_Net_Restore
    \/ Step_Net_Restore
    \/ Call_NewNetwork
    \/ Call_Network_Train
    \/ Call_Network_Restore
    \/ Step_Network_Restore
    \/ Return
SpecRestore == InitRestore /\ [][NextRestore]_vars

----------------------------------------------------------------------------
\* What the claims are stated with.

IsStoreCall == pc = "idle" /\ pc' = "returned" /\ call'.op = "Store"
PanicErr == "panic: index out of range"
IsZeroMatrix(w, n) ==
    /\ DOMAIN w = 0 .. n - 1
    /\ \A i \in 0 .. n - 1 :
           DOMAIN w[i] = 0 .. n - 1 /\ \A j \in 0 .. n - 1 : w[i][j] = <<0, 1>>
IsZeroVector(b, n) == DOMAIN b = 0 .. n - 1 /\ \A i \in 0 .. n - 1 : b[i] = <<0, 1>>
EntrywiseSum(a, b) ==
    [i \in DOMAIN a |-> [j \in DOMAIN a[i] |-> RatAdd(a[i][j], b[i][j])]]

\* D(patterns): what the same Store leaves on a network whose weights are zero.
Increment(v, m, n, patterns) ==
    IF v = "Net" THEN Net_StoreResult(NewSymDense(n), m, n, patterns).w
    ELSE Network_StoreResult(NewSymDense(n), m, n, patterns).w

\* sum over k of p_k[i] * p_k[j]
RECURSIVE CorrelationSum(_, _, _, _)
CorrelationSum(ps, i, j, k) ==
    IF k > Len(ps) THEN 0
    ELSE ps[k].v[i] * ps[k].v[j] + CorrelationSum(ps, i, j, k + 1)

\* Every pattern of the batch has n values.
AllOfLength(patterns, n) ==
    /\ ~patterns.nil
    /\ Len(patterns.ps) > 0
    /\ \A k \in 1 .. Len(patterns.ps) :
           ~patterns.ps[k].nil /\ PLen(patterns.ps[k]) = n

----------------------------------------------------------------------------
\* C1: after any sequence of Store calls (successful or rejected, Hebbian or
\* Storkey, any batches) on a network of size N, the weight matrix is
\* symmetric: W[i][j] = W[j][i] for all i, j in [0, N).
C1_WeightsSymmetric ==
    \A i \in 0 .. size - 1 : \A j \in 0 .. size - 1 : weights[i][j] = weights[j][i]

\* A second Store has succeeded and left a weight off the diagonal that is not 0.
C1_Witness ==
    /\ pc = "returned" /\ call.op = "Store" /\ ret.err = "none"
    /\ nstores = 2
    /\ \E i \in 0 .. size - 1 : \E j \in 0 .. size - 1 :
           i # j /\ weights[i][j] # Zero

\* C2: a successful Store adds its increment to the existing weights instead of
\* replacing them: from weights W, Store(patterns) leaves W + D(patterns), entry
\* by entry, D(patterns) being what the Store leaves on zero weights.
C2_StoreAddsIncrement ==
    [][(IsStoreCall /\ variant \in {"Net", "Network"} /\ ret'.err = "none")
          => weights' = EntrywiseSum(weights,
                                     Increment(variant, method, size, call'.patterns))]_vars

\* A second Store has succeeded with an increment that is not zero, on weights
\* that were not zero: what it leaves is not its increment alone.
C2_Witness ==
    /\ pc = "returned" /\ call.op = "Store" /\ ret.err = "none"
    /\ variant \in {"Net", "Network"}
    /\ nstores = 2
    /\ ~IsZeroMatrix(Increment(variant, method, size, call.patterns), size)
    /\ weights # Increment(variant, method, size, call.patterns)

\* C3: with the Hebbian rule, a Store of K bipolar patterns of dimension N on a
\* zero-weight network yields W[i][j] = (sum over k of p_k[i] * p_k[j]) / N for
\* every i # j: the divisor is the dimension N, not the number of patterns K.
C3_HebbianDividesByDimension ==
    [][(/\ IsStoreCall
        /\ ret'.err = "none"
        /\ IsZeroMatrix(weights, size)
        /\ AllOfLength(call'.patterns, size)
        /\ IF variant = "NetM" THEN call'.method = "hebbian" ELSE method = "hebbian")
          => \A i \in 0 .. size - 1 : \A j \in 0 .. size - 1 :
                 i # j => weights'[i][j]
                              = Rat(CorrelationSum(call'.patterns.ps, i, j, 1), size)]_vars

\* C4: Store returns an error when the pattern sequence is nil or empty, and
\* when any pattern of the batch, at any position, has a length different from
\* the network size N.
C4_StoreRejectsBadBatch ==
    (/\ pc = "returned" /\ call.op = "Store"
     /\ ~AllOfLength(call.patterns, size))
        => ret.err # "none"

C6_ConstructorChecks ==
    (pc = "returned" /\ call.op \in {"NewNet", "NewNetwork"})
        => LET failed == ret.err # "none" /\ size = 0
               built == /\ ret.err = "none"
                        /\ size = call.size
                        /\ IsZeroMatrix(weights, call.size)
                        /\ IsZeroVector(bias, call.size)
           IN  IF call.size <= 0 THEN failed
               ELSE IF variant = "NetM" \/ call.method \in {"hebbian", "storkey"}
               THEN built
               ELSE IF call.method = "foobar" THEN failed
               ELSE failed \/ built

\* A constructor has returned a network of the largest size.
C6_Witness ==
    /\ pc = "returned" /\ call.op \in {"NewNet", "NewNetwork"}
    /\ variant \in {"Net", "Network"}
    /\ call.size = MaxSize /\ call.method = "storkey"
    /\ ret.err = "none" /\ size = MaxSize

\* The weights of one pattern p under the Hebbian rule: p[i] * p[j] / N off the
\* diagonal, 0 on it.
SingleHebb(p) ==
    [i \in DOMAIN p.v |->
        [j \in DOMAIN p.v |-> IF i = j THEN <<0, 1>>
                              ELSE Rat(p.v[i] * p.v[j], PLen(p))]]

\* sum over j of W[i][j] * old[j], from the last j down to j
RECURSIVE FieldSum(_, _, _, _)
FieldSum(w, old, i, j) ==
    IF j < 0 THEN <<0, 1>>
    ELSE RatAdd(FieldSum(w, old, i, j - 1), RatMul(w[i][j], <<old.v[j], 1>>))

\* The first of the four checks of Restore that (p, maxiters, eqiters) fails on
\* a network of n neurons, "" when it fails none.
FirstRestoreError(p, maxiters, eqiters, n) ==
    LET checks == << <<p.nil, "invalid pattern supplied">>,
                     <<~p.nil /\ PLen(p) # n, "dimension mismatch">>,
                     <<maxiters <= 0, "invalid number of max iterations">>,
                     <<eqiters <= 0, "invalid number of equilibrium iterations">> >>
        failed == {k \in 1 .. 4 : checks[k][1]}
    IN  IF failed = {} THEN ""
        ELSE checks[CHOOSE k \in failed : \A x \in failed : k <= x][2]

IsNetRestoreCall == variant = "Net" /\ pc = "idle" /\ call'.op = "Restore"
IsNetRestoreStep == variant = "Net" /\ pc = "restore"

\* C7: Restore(p, maxiters, eqiters) returns a nil pattern and an error, runs
\* no unit update and leaves p unmodified when p is nil, when len(p) # N, when
\* maxiters <= 0, or when eqiters <= 0; when several of these hold, the error
\* reported is the first one in that order.
C7_RestoreChecksInOrder ==
    [][(/\ IsNetRestoreCall
        /\ FirstRestoreError(call'.p, call'.maxiters, call'.eqiters, size) # "")
          => /\ pc' = "returned"
             /\ ret'.err = FirstRestoreError(call'.p, call'.maxiters,
                                            call'.eqiters, size)
             /\ ret'.p = NilPattern
             /\ pat' = call'.p
             /\ neurons' = neurons
             /\ eqiter' = 0 /\ maxiter' = 0 /\ visited' = {}]_vars

\* Restore has returned from a trained network with a pattern of the wrong
\* length and both iteration counts not positive.
C7_Witness ==
    /\ variant = "Net" /\ pc = "returned" /\ call.op = "Restore"
    /\ ~IsZeroMatrix(weights, size)
    /\ ~call.p.nil /\ PLen(call.p) # size
    /\ call.maxiters <= 0 /\ call.eqiters <= 0
    /\ ret.err = "dimension mismatch"

\* C8: synchronous Restore performs exactly one sweep in which every unit's new
\* state is +1 if (sum over j of W[i][j] * old[j]) >= bias[i] and -1 otherwise,
\* old being the pattern as it was at the start of the call, for all units.
C8_SyncRestoreFromOldPattern ==
    (/\ variant = "Network" /\ pc = "returned" /\ call.op = "Restore"
     /\ call.mode = "sync" /\ ret.err = "none")
        => /\ ret.p = pat
           /\ maxiter = 0 /\ visited = {}
           /\ ~pat.nil /\ DOMAIN pat.v = 0 .. size - 1
           /\ \A i \in 0 .. size - 1 :
                  pat.v[i] = IF RatGeq(FieldSum(weights, call.p, i, size - 1), bias[i])
                             THEN 1 ELSE -1

\* A synchronous Restore on a trained network has returned a pattern that is
\* not the one it was given.
C8_Witness ==
    /\ variant = "Network" /\ pc = "returned" /\ call.op = "Restore"
    /\ call.mode = "sync" /\ ret.err = "none"
    /\ ~IsZeroMatrix(weights, size)
    /\ ret.p # call.p

\* C9: after storing exactly one bipolar pattern p of dimension N >= 2 under the
\* Hebbian rule on a fresh network (bias zero), Restore(p) returns p unchanged,
\* in sync mode and in async mode for every iteration count >= 1 and every unit
\* visiting order.  The Store leaves the weights SingleHebb(p); on them, every
\* update of Restore(p) leaves the pattern as it was given.
C9_StoredPatternIsFixedPoint ==
    /\ [][(/\ IsStoreCall /\ ret'.err = "none"
           /\ variant = "Network" /\ method = "hebbian"
           /\ IsZeroMatrix(weights, size)
           /\ Len(call'.patterns.ps) = 1)
             => weights' = SingleHebb(call'.patterns.ps[1])]_vars
    /\ []((/\ variant = "Network" /\ call.op = "Restore"
           /\ call.mode \in {"sync", "async"} /\ ret.err = "none"
           /\ size >= 2 /\ IsZeroVector(bias, size)
           /\ ~call.p.nil /\ weights = SingleHebb(call.p))
             => /\ pat = call.p
                /\ pc = "returned" => ret.p = call.p)

\* An async Restore of two sweeps has returned on the weights of its pattern.
C9_Witness ==
    /\ variant = "Network" /\ pc = "returned" /\ call.op = "Restore"
    /\ call.mode = "async" /\ call.iters = MaxIters /\ maxiter = MaxIters
    /\ ret.err = "none"
    /\ size = MaxSize /\ method = "hebbian"
    /\ weights = SingleHebb(call.p)
    /\ ret.p = call.p

\* C10: in async Restore(p, maxiters, eqiters) the no-change counter counts
\* consecutive unit updates across sweep boundaries, is reset to 0 by any unit
\* state change, and Restore returns immediately at the first unit update at
\* which the counter equals eqiters, without running the remaining sweeps; in
\* particular, restoring the single stored pattern with maxiters = ManyIters
\* and eqiters = N returns in fewer than maxiters sweeps.
C10_EquilibriumCounter ==
    /\ [][IsNetRestoreStep
             => /\ eqiter' = IF neurons' # neurons THEN 0 ELSE eqiter + 1
                /\ eqiter' = call.eqiters
                     => /\ pc' = "returned"
                        /\ ret' = [err |-> "none", p |-> pat', e |-> Zero, n |-> 0]
                        /\ maxiter' = maxiter
                /\ (eqiter' # call.eqiters /\ maxiter' < call.maxiters)
                     => pc' = "restore"]_vars
    /\ [](IsNetRestoreStep => eqiter < call.eqiters /\ maxiter < call.maxiters)
    /\ []((/\ variant = "Net" /\ pc = "returned" /\ call.op = "Restore"
           /\ ret.err = "none"
           /\ call.maxiters = ManyIters /\ call.eqiters = size
           /\ weights = SingleHebb(call.p))
             => maxiter < call.maxiters)

\* Restore has returned at equilibrium after more unit updates without a change
\* than a sweep has, the sweep it returned in not being the first.
C10_Witness ==
    /\ variant = "Net" /\ pc = "returned" /\ call.op = "Restore"
    /\ ret.err = "none"
    /\ call.eqiters = size + 1 /\ eqiter = call.eqiters
    /\ maxiter >= 1 /\ maxiter < call.maxiters
    /\ ret.p # call.p

\* The sweeps an async Restore was asked for, the unit updates it has completed
\* sweeps of or visited in this sweep, and whether its arguments are valid.
SweepLimit == IF variant = "Net" THEN call.maxiters ELSE call.iters
UpdatesDone == maxiter * size + Cardinality(visited)
IsAsyncRestore ==
    /\ call.op = "Restore"
    /\ ~call.p.nil /\ PLen(call.p) = size
    /\ IF variant = "Net" THEN call.maxiters > 0 /\ call.eqiters > 0
       ELSE call.mode = "async" /\ call.iters > 0
AtEquilibrium == variant = "Net" /\ eqiter = call.eqiters

\* C11: async Restore with valid arguments always terminates: it runs at most
\* maxiters sweeps (at most maxiters * N unit updates), and when the
\* equilibrium count is never reached it returns the current pattern with a
\* nil error rather than failing.  While the call runs, a unit is left for the
\* next update and the number of updates done, which every update raises by
\* one, is below maxiters * N.
C11_AsyncRestoreTerminates ==
    /\ [](pc = "restore"
            => /\ IsAsyncRestore
               /\ maxiter < SweepLimit
               /\ (0 .. size - 1) \ visited # {}
               /\ UpdatesDone < SweepLimit * size)
    /\ [][(pc = "restore" /\ ~AtEquilibrium')
             => UpdatesDone' = UpdatesDone + 1]_vars
    /\ []((pc = "returned" /\ IsAsyncRestore)
            => /\ ret = [err |-> "none", p |-> pat, e |-> Zero, n |-> 0]
               /\ ~pat.nil
               /\ IF AtEquilibrium THEN maxiter < SweepLimit
                  ELSE maxiter = SweepLimit /\ visited = {})

\* Restore has returned after all the sweeps it was asked for, two or more,
\* without reaching the equilibrium count.
C11_Witness ==
    /\ variant = "Net" /\ pc = "returned" /\ IsAsyncRestore
    /\ call.maxiters = MaxIters /\ maxiter = MaxIters
    /\ eqiter # call.eqiters
    /\ ret.err = "none" /\ ret.p # call.p

\* a <= b, for two rationals
RatLeq(a, b) == a[1] * b[2] <= b[1] * a[2]

\* What Energy returns for the pattern p on the network as it is.
EnergyOf(p) ==
    IF variant = "Net" THEN Net_EnergyResult(weights, bias, p, size).e
    ELSE Network_EnergyResult(weights, bias, p, size).e

RECURSIVE PairSum(_, _, _, _)
PairSum(w, p, i, j) ==
    IF j < 1 THEN <<0, 1>>
    ELSE IF i < 0 THEN PairSum(w, p, j - 2, j - 1)
    ELSE RatAdd(PairSum(w, p, i - 1, j), RatMul(w[i][j], <<p.v[i] * p.v[j], 1>>))
RECURSIVE BiasSum(_, _, _)
BiasSum(b, p, i) ==
    IF i < 0 THEN <<0, 1>>
    ELSE RatAdd(BiasSum(b, p, i - 1), RatMul(b[i], <<p.v[i], 1>>))

IsEnergyCall == pc = "idle" /\ pc' = "returned" /\ call'.op = "Energy"

\* C13: for every pattern p of length N and every weights and bias, Energy(p)
\* returns E = -(sum over i < j of W[i][j] * p[i] * p[j] + sum over i of
\* bias[i] * p[i]); on a freshly constructed network it is 0 for every pattern.
C13_EnergyFormula ==
    (/\ pc = "returned" /\ call.op = "Energy"
     /\ ~call.p.nil /\ PLen(call.p) = size)
        => /\ ret.err = "none"
           /\ ret.e = RatNeg(RatAdd(PairSum(weights, call.p, size - 2, size - 1),
                                    BiasSum(bias, call.p, size - 1)))

\* C14: Energy returns 0.0 together with an error for a nil pattern and for a
\* pattern whose length differs from N, and in every case (error or success) it
\* leaves the weights, the bias, the neuron states and the pattern unchanged.
C14_EnergyErrorsAndFrame ==
    [][IsEnergyCall
          => /\ weights' = weights /\ bias' = bias /\ neurons' = neurons
             /\ size' = size /\ method' = method /\ memorised' = memorised
             /\ pat' = call'.p
             /\ (call'.p.nil \/ PLen(call'.p) # size)
                  => ret'.e = <<0, 1>> /\ ret'.err \notin {"none", PanicErr}
             /\ (~call'.p.nil /\ PLen(call'.p) = size) => ret'.err = "none"]_vars

\* Energy has returned an error for a pattern longer than the network, whose
\* weights and bias are not zero.
C14_Witness ==
    /\ pc = "returned" /\ call.op = "Energy" /\ variant = "Net"
    /\ ~call.p.nil /\ PLen(call.p) > size
    /\ ret.err = "dimension mismatch" /\ ret.e = Zero
    /\ ~IsZeroMatrix(weights, size) /\ ~IsZeroVector(bias, size)

\* The number of positions at which two patterns of one length differ.
DiffCount(p, q) == Cardinality({i \in DOMAIN p.v : p.v[i] # q.v[i]})
IsEncodeReturn == pc = "returned" /\ call.op = "Encode"
IsAddNoiseReturn == pc = "returned" /\ call.op = "AddNoise"

\* C15: Encode returns a pattern of the same length as its input whose i-th
\* element is +1 when raw[i] > 0 and -1 when raw[i] <= 0 (exactly zero maps to
\* -1); the empty input yields an empty pattern.
C15_EncodeThreshold ==
    IsEncodeReturn
        => /\ ret.err = "none" /\ ~ret.p.nil
           /\ DOMAIN ret.p.v = DOMAIN call.p.v
           /\ \A i \in DOMAIN call.p.v :
                  /\ call.p.v[i] > 0 => ret.p.v[i] = 1
                  /\ call.p.v[i] < 0 => ret.p.v[i] = -1
                  /\ call.p.v[i] = 0 => ret.p.v[i] = -1

\* Encode has returned for a slice that holds a zero, a negative value and a
\* positive value other than 1.
C15_Witness ==
    /\ IsEncodeReturn
    /\ {call.p.v[i] : i \in DOMAIN call.p.v} = {-1, 0, 2}
    /\ \E i \in DOMAIN call.p.v : call.p.v[i] = 0 /\ ret.p.v[i] = -1

\* C16: Encode and AddNoise never modify their argument: after Encode(raw) the
\* sequence raw holds its original values, and after AddNoise(p, percent) the
\* pattern p holds its original values, the result being a separate pattern.
C16_ArgumentUnmodified ==
    (IsEncodeReturn \/ IsAddNoiseReturn) => pat = call.p

\* C17: AddNoise(p, percent) with percent in [0, 100] performs exactly
\* floor(percent * N / 100) sign flips, each at an index drawn from [0, N) with
\* replacement; consequently AddNoise(p, 0) equals p and the result differs
\* from p in at most floor(percent * N / 100) positions.
C17_NoiseFlipCount ==
    (IsAddNoiseReturn /\ call.pcnt \in 0 .. 100)
        => LET n == PLen(call.p)
               count == (call.pcnt * n) \div 100
           IN  /\ Len(draws) = count
               /\ \A k \in 1 .. Len(draws) : draws[k] \in 0 .. n - 1
               /\ call.pcnt = 0 => ret.p = call.p
               /\ DiffCount(ret.p, call.p) <= count

IsCapacityReturn == pc = "returned" /\ call.op = "Capacity"
\* The capacity of a network of the size of this one and the method m, on the
\* build that ran the call.
CapacityOf(m) == Network_CapacityValue(size, m, call.conv)

IsMemorisedReturn == pc = "returned" /\ call.op = "Memorised"
IsStoreSuccess == IsStoreCall /\ ret'.err = "none"

\* C20: Memorised() returns the count of memorised patterns: 0 on a fresh
\* network, and after any sequence of Store calls the total number of patterns
\* passed to the Store calls that succeeded. Step by step: the constructor
\* leaves the count at 0, a Store that succeeds adds the number of its patterns
\* to it, a Store that fails and every other call leave it alone, and
\* Memorised() returns it.
C20_MemorisedCountsStored ==
    [][/\ (call'.op = "NewNetwork" /\ ret'.err = "none") => memorised' = 0
       /\ IsStoreSuccess => memorised' = memorised + Len(call'.patterns.ps)
       /\ (IsStoreCall /\ ret'.err # "none") => memorised' = memorised
       /\ IsMemorisedReturn' => ret'.n = memorised /\ memorised' = memorised]_vars

\* h(a, b) = sum over k not in {a, b}, from k on, of w[a][k] * p[k]
RECURSIVE LocalFieldSum(_, _, _, _, _, _)
LocalFieldSum(w, p, n, a, b, k) ==
    IF k >= n THEN Zero
    ELSE RatAdd(IF k \in {a, b} THEN Zero ELSE RatMul(w[a][k], FromInt(p.v[k])),
                LocalFieldSum(w, p, n, a, b, k + 1))

\* The increment matrix w after the update for the pair (i, j), i < j, and the
\* pattern p: D = (1/N) * (p[i]*p[j] - p[i]*h(j,i) - p[j]*h(i,j)) is added to
\* w[i][j] and w[j][i].
StorkeyUpdate(w, p, n, i, j) ==
    LET d == RatDivInt(
                 RatSub(RatSub(FromInt(p.v[i] * p.v[j]),
                               RatMul(FromInt(p.v[i]), LocalFieldSum(w, p, n, j, i, 0))),
                        RatMul(FromInt(p.v[j]), LocalFieldSum(w, p, n, i, j, 0))),
                 n)
    IN  [w EXCEPT ![i][j] = RatAdd(@, d), ![j][i] = RatAdd(@, d)]

\* The updates from (i, j, k) on, pair by pair and, for each pair, pattern by
\* pattern.
RECURSIVE StorkeyPairMajor(_, _, _, _, _, _)
StorkeyPairMajor(w, ps, n, i, j, k) ==
    IF i >= n THEN w
    ELSE IF j >= n THEN StorkeyPairMajor(w, ps, n, i + 1, i + 2, 1)
    ELSE IF k > Len(ps) THEN StorkeyPairMajor(w, ps, n, i, j + 1, 1)
    ELSE StorkeyPairMajor(StorkeyUpdate(w, ps[k], n, i, j), ps, n, i, j, k + 1)

ZeroMatrix(n) == [i \in 0 .. n - 1 |-> [j \in 0 .. n - 1 |-> Zero]]

\* A Store of the Storkey rule returns without error for a batch of patterns of
\* the network's length.
IsStorkeyStore ==
    /\ IsStoreCall
    /\ ret'.err = "none"
    /\ AllOfLength(call'.patterns, size)
    /\ IF variant = "NetM" THEN call'.method = "storkey" ELSE method = "storkey"

\* C21: with the Storkey rule, each update for pair (i, j), i < j, and pattern
\* p is D = (1/N) * (p[i]*p[j] - p[i]*h(j,i) - p[j]*h(i,j)) with local field
\* h(a, b) = sum over k not in {a, b} of W'[a][k]*p[k], where W' is the
\* increment matrix of this Store call only: zero at the start of the call,
\* containing every update already written in this call, and not containing
\* weights stored by earlier Store calls; the increment is then added to the
\* network weights.
C21_StorkeyLocalFieldOfThisCall ==
    [][IsStorkeyStore
          => weights' = EntrywiseSum(
                            weights,
                            StorkeyPairMajor(ZeroMatrix(size), call'.patterns.ps,
                                             size, 0, 1, 1))]_vars

\* The updates of the pattern p for the pairs from (i, j) on.
RECURSIVE StorkeyPattern(_, _, _, _, _)
StorkeyPattern(w, p, n, i, j) ==
    IF i >= n THEN w
    ELSE IF j >= n THEN StorkeyPattern(w, p, n, i + 1, i + 2)
    ELSE StorkeyPattern(StorkeyUpdate(w, p, n, i, j), p, n, i, j + 1)

\* The updates of ps[k] over all unit pairs, then those of ps[k + 1], and so on.
RECURSIVE StorkeyPatternMajor(_, _, _, _)
StorkeyPatternMajor(w, ps, n, k) ==
    IF k > Len(ps) THEN w
    ELSE StorkeyPatternMajor(StorkeyPattern(w, ps[k], n, 0, 1), ps, n, k + 1)

\* C22: Storkey Store computes per-pattern contributions sequentially and
\* applies weight updates pattern-by-pattern: the weights after
\* Store([p1, ..., pK]) equal those obtained by applying the Storkey update of
\* p1 over all unit pairs, then that of p2 over all unit pairs, and so on in
\* batch order.
C22_StorkeyPatternByPattern ==
    [][(IsStorkeyStore /\ variant \in {"Net", "Network"})
          => weights' = EntrywiseSum(
                            weights,
                            StorkeyPatternMajor(ZeroMatrix(size),
                                                call'.patterns.ps, size, 1))]_vars

\* No unit update would change p: every unit is +1 exactly when its input sum
\* reaches its bias.
IsStable(p) ==
    \A i \in 0 .. size - 1 :
        (p.v[i] = 1) <=> RatGeq(FieldSum(weights, p, i, size - 1), bias[i])

\* C23: whenever async Restore(p, maxiters, eqiters) with eqiters >= N returns
\* because the no-change counter reached eqiters, the returned pattern is a
\* stable state (local minimum) of the network: for every unit i, p[i] = +1
\* exactly when (sum over j of W[i][j]*p[j]) >= bias[i], so no further unit
\* update would change it.
C23_EquilibriumIsStable ==
    (/\ pc = "returned" /\ IsAsyncRestore
     /\ AtEquilibrium
     /\ call.eqiters >= size)
        => IsStable(ret.p)

\* C23, amended: whenever async Restore(p, maxiters, eqiters) with
\* eqiters >= 2N - 2 returns because the no-change counter reached eqiters, the
\* returned pattern is a stable state of the network.  The counter runs across
\* sweeps, each with an order of its own: after the last change a unit can be
\* left out of at most N - 2 updates of that sweep and N - 1 of the next.
C23_EquilibriumIsStableFromTwoSweeps ==
    (/\ pc = "returned" /\ IsAsyncRestore
     /\ AtEquilibrium
     /\ call.eqiters >= 2 * size - 2)
        => IsStable(ret.p)

\* Restore has returned by equilibrium with eqiters = 2N - 2 on a trained
\* network of MaxSize units, with a pattern other than the one handed in.
C23_Witness ==
    /\ pc = "returned" /\ IsAsyncRestore
    /\ AtEquilibrium
    /\ size = MaxSize
    /\ call.eqiters = 2 * size - 2
    /\ ~IsZeroMatrix(weights, size)
    /\ ret.p # call.p
    /\ IsStable(ret.p)

\* A unit update of the variant "NetFlag" that ends a sweep.
IsFlagSweepEnd ==
    /\ variant = "NetFlag"
    /\ pc = "restore"
    /\ Cardinality(visited) = size - 1
    /\ pat' # pat \/ eqiter' # eqiter

\* C24: in the Restore(pattern, iters) variant that tracks a per-neuron changed
\* flag, Restore returns right after the first sweep in which no neuron changed
\* state, also when neurons changed state in earlier sweeps of the same call;
\* it runs all iters sweeps only if every sweep changed some neuron.
C24_ReturnsAfterQuietSweep ==
    [][IsFlagSweepEnd
          => /\ eqiter' >= size => pc' = "returned" /\ maxiter' = maxiter
             /\ (pc' = "returned" /\ maxiter' = call.iters) => eqiter' < size]_vars

\* Restore(p, mode, iters) of the variant "Network" has been called with a
\* pattern of the network's length.
IsValidPatternRestore ==
    /\ variant = "Network" /\ call.op = "Restore"
    /\ pc \in {"restore", "returned"}
    /\ ~call.p.nil /\ PLen(call.p) = size

\* C25: Restore(p, mode, iters) on a valid pattern fails with the
\* unsupported-mode error for every mode string other than exactly "sync" or
\* "async", whatever the value of iters; the iteration count is validated (must
\* be > 0) only when the mode is "async", so sync Restore succeeds for every
\* iters including iters <= 0 and its result does not depend on iters.
C25_ModeAndItersChecks ==
    IsValidPatternRestore
        => /\ call.mode \notin {"sync", "async"}
                  => pc = "returned" /\ ret.err = "unsupported mode"
           /\ (call.mode = "async" /\ call.iters <= 0)
                  => pc = "returned" /\ ret.err = "invalid number of iterations"
           /\ (call.mode = "async" /\ call.iters > 0)
                  => ret.err = "none"
           /\ call.mode = "sync"
                  => /\ pc = "returned" /\ ret.err = "none"
                     /\ \A i \in 0 .. size - 1 :
                            ret.p.v[i]
                                = IF RatGeq(FieldSum(weights, call.p, i, size - 1),
                                            bias[i])
                                  THEN 1 ELSE -1

IsSetReturn == pc = "returned" /\ call.op = "Set"

\* C26: Pattern.Set(i, val) returns an 'invalid index' error and leaves the
\* pattern unchanged for every index i outside [0, Len), and for every i inside
\* [0, Len) it stores -1 when val <= 0 and +1 otherwise and returns no error.
C26_SetChecksIndex ==
    IsSetReturn
        => IF call.i \in 0 .. PLen(call.p) - 1
           THEN /\ ret.err = "none"
                /\ pat.v[call.i] = IF call.val <= 0 THEN -1 ELSE 1
                /\ \A k \in DOMAIN pat.v : k # call.i => pat.v[k] = call.p.v[k]
           ELSE ret.err = "invalid index" /\ pat = call.p

\* The weights a Store of the one pattern p with the method m leaves, from the
\* weights w, on the network of this behaviour.
StoreOne(w, m, p) ==
    CASE variant = "Net" -> Net_StoreResult(w, m, size, Batch(<<p>>)).w
      [] variant = "NetM" -> NetM_StoreResult(w, size, Batch(<<p>>), m).w
      [] OTHER -> Network_StoreResult(w, m, size, Batch(<<p>>)).w

\* A Store of the Hebbian rule returns without error for a batch of two
\* patterns of the network's length.
IsHebbianStoreOfTwo ==
    /\ IsStoreCall
    /\ variant \in {"Net", "NetM", "Network"}
    /\ ret'.err = "none"
    /\ AllOfLength(call'.patterns, size)
    /\ Len(call'.patterns.ps) = 2
    /\ IF variant = "NetM" THEN call'.method = "hebbian" ELSE method = "hebbian"

\* C27: with the Hebbian rule, storing a batch is the same as storing its
\* patterns one call at a time in any order: the weights after Store([a, b])
\* equal the weights after Store([a]) then Store([b]), and equal the weights
\* after Store([b]) then Store([a]).
C27_HebbianBatchIsSequential ==
    [][IsHebbianStoreOfTwo
          => LET a == call'.patterns.ps[1]
                 b == call'.patterns.ps[2]
             IN  /\ weights' = StoreOne(StoreOne(weights, "hebbian", a), "hebbian", b)
                 /\ weights' = StoreOne(StoreOne(weights, "hebbian", b), "hebbian", a)]_vars

\* C28: after any sequence of Store calls with either learning rule, every
\* diagonal weight is zero: W[i][i] = 0 for all i in [0, N), so a unit never
\* contributes to its own input sum in Restore.
C28_DiagonalZero ==
    /\ DOMAIN weights = 0 .. size - 1
    /\ \A i \in 0 .. size - 1 : weights[i][i] = Zero

\* Two Store calls have succeeded on a network of MaxSize units and every
\* weight off the diagonal is other than zero.
C28_Witness ==
    /\ pc = "returned" /\ call.op = "Store" /\ ret.err = "none"
    /\ nstores = 2 /\ size = MaxSize
    /\ \A i \in 0 .. size - 1 : \A j \in 0 .. size - 1 :
           i # j => weights[i][j] # Zero

\* C29: every method string that NewNetwork accepts (including case variants
\* such as "Hebbian" or "STORKEY") selects a learning rule for the life of the
\* network: a successful Store of a bipolar pattern on such a network of size
\* N >= 2 changes the weights according to that rule and is never a silent
\* no-op.
C29_AcceptedMethodLearns ==
    [][(/\ IsStoreCall /\ variant = "Network"
        /\ ret'.err = "none"
        /\ size >= 2)
          => /\ weights' = EntrywiseSum(
                               weights,
                               Increment("Network", ToLower(method), size,
                                         call'.patterns))
             /\ Len(call'.patterns.ps) = 1 => weights' # weights]_vars

\* The number of units of p that are +1.
PlusCount(p) == Cardinality({i \in DOMAIN p.v : p.v[i] = 1})

\* q is below p in the order of (energy, fewer units at +1): the energy of q is
\* lower, or it is the same and q has more units at +1.
Descends(q, p) ==
    \/ RatLt(EnergyOf(q), EnergyOf(p))
    \/ EnergyOf(q) = EnergyOf(p) /\ PlusCount(q) > PlusCount(p)

RECURSIVE Pow2(_)
Pow2(n) == IF n = 0 THEN 1 ELSE 2 * Pow2(n - 1)

\* C30: on a network trained by Store (symmetric weights, zero diagonal, zero
\* bias), async unit updates cannot flip units forever: from every bipolar
\* start pattern and under every sequence of visiting orders only finitely many
\* state changes occur, so the pattern eventually stops changing and, with
\* maxiters large enough, Restore returns by equilibrium.  Every state change
\* takes the pattern down in the order of (energy, fewer units at +1), which
\* has no more than 2^N levels, so a pattern never comes back and a call makes
\* fewer than 2^N changes; a Restore with the sweep budget ManyIters returns by
\* equilibrium, within 2^N * eqiters unit updates.
C30_FinitelyManyFlips ==
    /\ [][(pc = "restore" /\ pat' # pat) => Descends(pat', pat)]_vars
    /\ []((/\ pc = "returned" /\ IsAsyncRestore /\ variant = "Net"
           /\ call.maxiters = ManyIters)
              => /\ AtEquilibrium
                 /\ maxiter < ManyIters
                 /\ UpdatesDone <= Pow2(size) * call.eqiters)

\* A Restore with the sweep budget ManyIters on a trained network has returned
\* by equilibrium after its first sweep, with a pattern other than the one it
\* was given and of the same energy.
C30_Witness ==
    /\ pc = "returned" /\ IsAsyncRestore /\ variant = "Net"
    /\ call.maxiters = ManyIters
    /\ AtEquilibrium /\ maxiter >= 1
    /\ ~IsZeroMatrix(weights, size)
    /\ pat # call.p
    /\ EnergyOf(pat) = EnergyOf(call.p)

====
